---- MODULE Spec2Model ----
(***************************************************************************)
(* The low-roller turn engine (engine/src/lib.rs) with its scoring rules   *)
(* (rules.rs) and the Amateur bot policy (bot.rs) that timeout_autoplay    *)
(* calls.  One State per session; the host calls roll, pick,               *)
(* end_turn_if_done and timeout_autoplay in any order it likes (Spec), or  *)
(* in the documented loop (SpecLoop); SpecBot is the bot policies alone.   *)
(*                                                                         *)
(* Vec<T> is a sequence; a Rust offset i is position i + 1 here.           *)
(* Option<T> is <<>> (None) or <<x>> (Some(x)).                            *)
(* A failed assert! or an out-of-range index is a panic: the call returns  *)
(* no Event and State keeps whatever the call had written before it.       *)
(***************************************************************************)
EXTENDS Integers, Sequences, FiniteSets

VARIABLES seed, players, turn_idx, remaining_dice, last_faces,
          must_pick_at_least_one, pot_cents, phase, events_seq,
          per_turn_deadline_ms, leader_to_beat,
          call, ev, emitted, twin, turn_log

\* The eleven fields of State, then what the host saw of the last call:
\* the call and whether it returned, the Event it returned, and how many
\* Events the engine has returned so far.  twin is a second session, run
\* beside the first where two sessions are compared (None elsewhere).
\* turn_log is the tally of a host that follows the documented loop: the
\* EndTurn events so far and the picks of the turn under way (None
\* elsewhere).
vars == <<seed, players, turn_idx, remaining_dice, last_faces,
          must_pick_at_least_one, pot_cents, phase, events_seq,
          per_turn_deadline_ms, leader_to_beat, call, ev, emitted, twin,
          turn_log>>

----------------------------------------------------------------------------
\* Bounds of the model.

\* Seeds are 0..MaxSeed.
MaxSeed == 1
\* Two sessions run side by side until either has events_seq = MaxTwinEvents.
MaxTwinEvents == 4
\* init_game is given the first n players of the roster, 1 <= n <= MaxPlayers.
MaxPlayers == 2
\* No call is made once events_seq = MaxEvents.
MaxEvents == 14
\* The host's explicit pick lists hold offsets 0..MaxIndex, and the first
\* offset past the roll.
MaxIndex == 1

\* The policies are given rolls of 1..MaxFaces dice,
MaxFaces == 3
\* with an opponent who finished at a total of 0..MaxLeader,
MaxLeader == 10
\* by a player who has banked a total of 0..MaxBanked.
MaxBanked == 4

\* The host tries its explicit pick lists while events_seq < FineEvents;
\* from then on it banks whole rolls or lets the timeout play.
FineEvents == (MaxEvents \div 2) - 1

----------------------------------------------------------------------------
\* Program constants.

\* remaining_dice at the start of a turn.
DICE_PER_TURN == 7
\* rules.rs REROLL_EV = 3.0 (every product with it is a whole number).
REROLL_EV == 3
\* u32::MAX, the scan's starting minimum.  TLC's integers end at 2^31 - 1,
\* so the largest of them stands for 4294967295; no total comes near either.
U32_MAX == 2147483647

None == <<>>
Some(x) == <<x>>

----------------------------------------------------------------------------
\* rules.rs

face_score(face) == IF face = 3 THEN 0 ELSE face

RECURSIVE sum_score(_)
sum_score(faces) ==
    IF faces = <<>> THEN 0
    ELSE face_score(Head(faces)) + sum_score(Tail(faces))

----------------------------------------------------------------------------
\* rand::rngs::StdRng.  The generator is a library; what the engine relies
\* on is that it is a fixed function of its 64-bit seed.  A 16-bit linear
\* congruential generator stands in for it: a generator is its state, and
\* each draw steps the state and yields its high byte.

RECURSIVE Xor(_, _)
Xor(a, b) ==
    IF a = 0 THEN b
    ELSE IF b = 0 THEN a
    ELSE (((a % 2) + (b % 2)) % 2) + 2 * Xor(a \div 2, b \div 2)

seed_from_u64(s) == (s * 75 + 74) % 65536
RngNext(rng) == (rng * 25173 + 13849) % 65536
RngU8(rng) == rng \div 256

----------------------------------------------------------------------------
\* model.rs

\* Player (display, a label with no effect on play, is left out).
Player(id, is_bot, bot_level) ==
    [id |-> id, is_bot |-> is_bot, bot_level |-> bot_level,
     wager_cents |-> 100, total_score |-> 0, picks |-> <<>>]

\* The players a host may hand to init_game: a human, a Pro bot, an
\* Amateur bot, ... each created with a wager of 100 cents, no pick and a
\* total of 0.
Roster(i) ==
    CASE i % 3 = 1 -> Player(i, FALSE, None)
      [] i % 3 = 2 -> Player(i, TRUE, Some("Pro"))
      [] OTHER     -> Player(i, TRUE, Some("Amateur"))

Normal == [tag |-> "Normal", ids |-> <<>>]
SuddenDeath(ids) == [tag |-> "SuddenDeath", ids |-> ids]
Finished == [tag |-> "Finished", ids |-> <<>>]

\* The State value the operations work on.
State ==
    [seed |-> seed, players |-> players, turn_idx |-> turn_idx,
     remaining_dice |-> remaining_dice, last_faces |-> last_faces,
     must_pick_at_least_one |-> must_pick_at_least_one,
     pot_cents |-> pot_cents, phase |-> phase, events_seq |-> events_seq,
     per_turn_deadline_ms |-> per_turn_deadline_ms,
     leader_to_beat |-> leader_to_beat]

\* What a call leaves: the State, whether it returned (ok) or panicked,
\* and the Option<Event> it returned.
Returned(s, e) == [state |-> s, ok |-> TRUE, ev |-> e]
Panicked(s) == [state |-> s, ok |-> FALSE, ev |-> None]

----------------------------------------------------------------------------
\* lib.rs

\* players[turn_idx] of the code: position turn_idx + 1.  The index is
\* checked: where HasCur is false the access panics.
Cur(s) == s.players[s.turn_idx + 1]
HasCur(s) == s.turn_idx < Len(s.players)

hash_state_stub(s) == <<s.turn_idx, s.remaining_dice, Len(Cur(s).picks)>>

Swap(v, i, j) == [v EXCEPT ![i] = v[j], ![j] = v[i]]

\* SliceRandom::shuffle: for i in (1..len).rev() swap(i, rng in 0..=i).
RECURSIVE Shuffle(_, _, _)
Shuffle(v, i, rng) ==
    IF i < 1 THEN v
    ELSE LET r == RngNext(rng)
             j == RngU8(r) % (i + 1)
         IN  Shuffle(Swap(v, i + 1, j + 1), i - 1, r)

RECURSIVE SumWagers(_)
SumWagers(ps) ==
    IF ps = <<>> THEN 0 ELSE Head(ps).wager_cents + SumWagers(Tail(ps))

init_game(sd, ps) ==
    [seed |-> sd,
     players |-> Shuffle(ps, Len(ps) - 1, seed_from_u64(Xor(sd, 24301))),
     turn_idx |-> 0, remaining_dice |-> DICE_PER_TURN, last_faces |-> <<>>,
     must_pick_at_least_one |-> TRUE, pot_cents |-> SumWagers(ps),
     phase |-> Normal, events_seq |-> 0, per_turn_deadline_ms |-> None,
     leader_to_beat |-> None]

\* The draws without the + 1: faces 0..5.
RECURSIVE GenFacesFromZero(_, _)
GenFacesFromZero(rng, n) ==
    IF n = 0 THEN <<>>
    ELSE LET r == RngNext(rng)
         IN  <<RngU8(r) % 6>> \o GenFacesFromZero(r, n - 1)

\* n draws of (gen::<u8>() % 6) + 1.
RECURSIVE GenFaces(_, _)
GenFaces(rng, n) ==
    IF n = 0 THEN <<>>
    ELSE LET r == RngNext(rng)
         IN  <<(RngU8(r) % 6) + 1>> \o GenFaces(r, n - 1)

\* A generator keyed by the seat as well.
RollRngBySeat(s) ==
    seed_from_u64(Xor(s.seed, (s.events_seq + s.turn_idx) * 7919))

\* The generator roll seeds (events_seq stays far below the wrap of the
\* 64-bit product).
RollRng(s) == seed_from_u64(Xor(s.seed, s.events_seq * 7919))

\* Lines 29-35 of roll: the faces, the flag, the counter, the event (whose
\* state_hash reads players[turn_idx], after the writes).
roll_apply(s) ==
    LET faces == GenFaces(RollRng(s), s.remaining_dice)
        t == [s EXCEPT !.last_faces = faces,
                       !.must_pick_at_least_one = TRUE,
                       !.events_seq = s.events_seq + 1]
    IN  IF ~HasCur(t) THEN Panicked(t)
        ELSE Returned(t, Some([seq |-> t.events_seq, ty |-> "Roll",
                               payload |-> [faces |-> t.last_faces],
                               state_hash |-> hash_state_stub(t)]))

\* A roll that does not look at the phase.
roll_in_any_phase(s) ==
    IF ~(s.remaining_dice > 0) THEN Panicked(s) ELSE roll_apply(s)

roll(s) ==
    IF s.phase.tag # "Normal" THEN Panicked(s)
    ELSE IF ~(s.remaining_dice > 0) THEN Panicked(s)
    ELSE roll_apply(s)

\* idxs.sort_unstable()
RECURSIVE InsertSorted(_, _)
InsertSorted(x, v) ==
    IF v = <<>> THEN <<x>>
    ELSE IF x <= Head(v) THEN <<x>> \o v
    ELSE <<Head(v)>> \o InsertSorted(x, Tail(v))

RECURSIVE Sort(_)
Sort(v) == IF v = <<>> THEN <<>> ELSE InsertSorted(Head(v), Sort(Tail(v)))

\* No dedup at all.
DedupSkipped(v) == v

\* idxs.dedup(): drops every element equal to the one before it.
RECURSIVE Dedup(_)
Dedup(v) ==
    IF Len(v) <= 1 THEN v
    ELSE IF v[1] = v[2] THEN Dedup(Tail(v))
    ELSE <<v[1]>> \o Dedup(Tail(v))

Contains(v, x) == \E k \in 1..Len(v) : v[k] = x

\* The faces of one roll at the offsets idxs, scored.
PickedVals(faces, idxs) ==
    [k \in 1..Len(idxs) |-> face_score(faces[idxs[k] + 1])]

\* The filter looking up the offset after the face's own.
RECURSIVE UnpickedShifted(_, _, _)
UnpickedShifted(faces, idxs, i) ==
    IF i >= Len(faces) THEN <<>>
    ELSE (IF Contains(idxs, i + 1) THEN <<>> ELSE <<faces[i + 1]>>)
         \o UnpickedShifted(faces, idxs, i + 1)

\* The faces whose offset is not in idxs, in order.
RECURSIVE Unpicked(_, _, _)
Unpicked(faces, idxs, i) ==
    IF i >= Len(faces) THEN <<>>
    ELSE (IF Contains(idxs, i) THEN <<>> ELSE <<faces[i + 1]>>)
         \o Unpicked(faces, idxs, i + 1)

\* A total taken over the dice of this pick alone.
BankedTotalOfBatch(picks, picked_vals) == sum_score(picked_vals)

\* Line 50: the total is recomputed over the whole pick history.
BankedTotal(picks, picked_vals) == sum_score(picks)

\* Lines 48-59 of pick: what it writes once every offset of idxs is known
\* to be in range (players[turn_idx] is read first, at line 48).
pick_apply(s, idxs) ==
    LET picked_vals == PickedVals(s.last_faces, idxs)
        picks == Cur(s).picks \o picked_vals
        remaining == Unpicked(s.last_faces, idxs, 0)
        t == [s EXCEPT
                !.players[s.turn_idx + 1].picks = picks,
                !.players[s.turn_idx + 1].total_score =
                    BankedTotal(picks, picked_vals),
                !.remaining_dice = Len(remaining),
                !.last_faces = <<>>,
                !.must_pick_at_least_one = FALSE,
                !.events_seq = s.events_seq + 1]
    IN  IF ~HasCur(s) THEN Panicked(s)
        ELSE Returned(t, Some([seq |-> t.events_seq, ty |-> "Pick",
                               payload |-> [picked |-> idxs,
                                            values |-> picked_vals],
                               state_hash |-> hash_state_stub(t)]))

\* A pick that banks each value as soon as its offset has passed the range
\* check, so that an offset past the roll is met after the ones before it
\* were banked.
pick_banking_in_loop(s, indices) ==
    IF s.last_faces = <<>> THEN Panicked(s)
    ELSE IF indices = <<>> THEN Panicked(s)
    ELSE LET idxs == Dedup(Sort(indices))
             inside == SelectSeq(idxs, LAMBDA i : i < Len(s.last_faces))
         IN  IF inside # idxs
             THEN Panicked([s EXCEPT !.players[s.turn_idx + 1].picks =
                               @ \o PickedVals(s.last_faces, inside)])
             ELSE pick_apply(s, idxs)

\* Lines 39-47: the three assertions come before the first write.
pick(s, indices) ==
    IF s.last_faces = <<>> THEN Panicked(s)
    ELSE IF indices = <<>> THEN Panicked(s)
    ELSE LET idxs == Dedup(Sort(indices))
         IN  IF \E k \in 1..Len(idxs) : ~(idxs[k] < Len(s.last_faces))
             THEN Panicked(s)
             ELSE pick_apply(s, idxs)

\* The scan with <= for <: a player equal to the lowest restarts the list.
RECURSIVE ScanLowsRestarting(_, _, _, _)
ScanLowsRestarting(ps, i, low, lows) ==
    IF i >= Len(ps) THEN lows
    ELSE LET total == ps[i + 1].total_score
         IN  IF total <= low THEN ScanLowsRestarting(ps, i + 1, total, <<i>>)
             ELSE ScanLowsRestarting(ps, i + 1, low, lows)

\* The scan for the lowest total: lows holds the offsets of the players at
\* the lowest total seen so far.
RECURSIVE ScanLows(_, _, _, _)
ScanLows(ps, i, low, lows) ==
    IF i >= Len(ps) THEN lows
    ELSE LET total == ps[i + 1].total_score
         IN  IF total < low THEN ScanLows(ps, i + 1, total, <<i>>)
             ELSE IF total = low THEN ScanLows(ps, i + 1, low, Append(lows, i))
             ELSE ScanLows(ps, i + 1, low, lows)

\* A turn taken to be over whenever no roll awaits a pick.
TurnDoneWhenNoRoll(s) == s.last_faces = <<>>

\* Line 63: the turn is over when no die is left to roll.
TurnDone(s) == s.remaining_dice = 0

\* Line 67 without the wrap.
NextIdxUnwrapped(s) == s.turn_idx + 1

\* Line 67: the next seat, circularly.
NextIdx(s) == (s.turn_idx + 1) % Len(s.players)

\* The new turn keeping the dice count of the old.
StartTurnKeepingDice(s, next_idx) ==
    [s EXCEPT !.turn_idx = next_idx, !.last_faces = <<>>,
              !.must_pick_at_least_one = TRUE]

\* The new turn leaving the flag as the last pick set it.
StartTurnFlagUntouched(s, next_idx) ==
    [s EXCEPT !.turn_idx = next_idx, !.remaining_dice = DICE_PER_TURN,
              !.last_faces = <<>>]

\* The new turn given to the same seat again.
StartTurnSameSeat(s, next_idx) ==
    [s EXCEPT !.remaining_dice = DICE_PER_TURN, !.last_faces = <<>>,
              !.must_pick_at_least_one = TRUE]

\* Lines 69-70: the next turn begins.
StartTurn(s, next_idx) ==
    [s EXCEPT !.turn_idx = next_idx, !.remaining_dice = DICE_PER_TURN,
              !.last_faces = <<>>, !.must_pick_at_least_one = TRUE]

\* players[turn_idx] is read at line 65, after the counter's increment.
end_turn_if_done(s) ==
    IF TurnDone(s)
    THEN LET s1 == [s EXCEPT !.events_seq = s.events_seq + 1]
         IN  IF ~HasCur(s1) THEN Panicked(s1)
             ELSE
             LET total == Cur(s1).total_score
                 e == [seq |-> s1.events_seq, ty |-> "EndTurn",
                       payload |-> [playerIdx |-> s1.turn_idx,
                                    total |-> total],
                       state_hash |-> hash_state_stub(s1)]
                 next_idx == NextIdx(s1)
                 last_player == (s1.turn_idx = Len(s1.players) - 1)
                 s2 == StartTurn(s1, next_idx)
                 lows == ScanLows(s2.players, 0, U32_MAX, <<>>)
                 s3 == IF last_player
                       THEN IF Len(lows) > 1
                            THEN [s2 EXCEPT !.phase = SuddenDeath(
                                     [k \in 1..Len(lows) |->
                                         s2.players[lows[k] + 1].id])]
                            ELSE [s2 EXCEPT !.phase = Finished]
                       ELSE s2
             IN  Returned(s3, Some(e))
    ELSE Returned(s, None)

\* The scan without p.id != cur_id: the current player counts too.
RECURSIVE ScanLeaderCountingSelf(_, _, _, _, _)
ScanLeaderCountingSelf(ps, cur_id, i, best, found) ==
    IF i >= Len(ps) THEN (IF found THEN Some(best) ELSE None)
    ELSE LET p == ps[i + 1]
         IN  IF p.picks # <<>>
             THEN ScanLeaderCountingSelf(ps, cur_id, i + 1,
                             IF p.total_score < best THEN p.total_score
                             ELSE best, TRUE)
             ELSE ScanLeaderCountingSelf(ps, cur_id, i + 1, best, found)

\* The scan of compute_leader_to_beat from player i on.
RECURSIVE ScanLeader(_, _, _, _, _)
ScanLeader(ps, cur_id, i, best, found) ==
    IF i >= Len(ps) THEN (IF found THEN Some(best) ELSE None)
    ELSE LET p == ps[i + 1]
         IN  IF p.id # cur_id /\ p.picks # <<>>
             THEN ScanLeader(ps, cur_id, i + 1,
                             IF p.total_score < best THEN p.total_score
                             ELSE best, TRUE)
             ELSE ScanLeader(ps, cur_id, i + 1, best, found)

compute_leader_to_beat(s) ==
    ScanLeader(s.players, Cur(s).id, 0, U32_MAX, FALSE)

----------------------------------------------------------------------------
\* bot.rs

\* faces.iter().enumerate().filter(..).map(|(i,_)| i).collect(): the
\* offsets that pass the filter, ascending.
RECURSIVE Ascending(_)
Ascending(S) ==
    IF S = {} THEN <<>>
    ELSE LET m == CHOOSE x \in S : \A y \in S : x <= y
         IN  <<m>> \o Ascending(S \ {m})

OffsetsOf(faces) == 0..(Len(faces) - 1)

\* The filter f <= 3 for f == 3.
ThreesAndBelow(faces) ==
    Ascending({i \in OffsetsOf(faces) : faces[i + 1] <= 3})

\* Lines 12 and 34: the offsets showing face 3.
Threes(faces) == Ascending({i \in OffsetsOf(faces) : faces[i + 1] = 3})

\* The scan with <= for <: the last of the lowest wins.
RECURSIVE ScanLowestLast(_, _, _)
ScanLowestLast(faces, i, lowest) ==
    IF i >= Len(faces) THEN lowest
    ELSE ScanLowestLast(faces, i + 1,
                    IF face_score(faces[i + 1]) <= face_score(faces[lowest + 1])
                    THEN i ELSE lowest)

\* for i in 1..faces.len(): a strictly lower score moves lowest to i.
RECURSIVE ScanLowest(_, _, _)
ScanLowest(faces, i, lowest) ==
    IF i >= Len(faces) THEN lowest
    ELSE ScanLowest(faces, i + 1,
                    IF face_score(faces[i + 1]) < face_score(faces[lowest + 1])
                    THEN i ELSE lowest)

RECURSIVE SumSeq(_)
SumSeq(v) == IF v = <<>> THEN 0 ELSE Head(v) + SumSeq(Tail(v))

Reverse(v) == [k \in 1..Len(v) |-> v[Len(v) + 1 - k]]

\* The decision, or a panic: with no face rolled and a leader to beat,
\* faces[lowest] is out of range, and players[turn_idx] is read.  (remaining_dice - picks.len() underflows
\* only with remaining_dice = 0, which no state with a roll active has; it
\* is taken as the panic of a build with overflow checks.)
Decision(picks) == [ok |-> TRUE, pick_indices |-> picks]
NoDecision == [ok |-> FALSE, pick_indices |-> <<>>]

amateur_policy(s, rng) ==
    LET faces == s.last_faces
        threes == Threes(faces)
    IN  IF threes # <<>> THEN Decision(threes)
        ELSE
        LET lowest == ScanLowest(faces, 1, 0)
            first == <<lowest>>
        IN  IF s.leader_to_beat # None
                /\ (~HasCur(s) \/ faces = <<>>
                    \/ s.remaining_dice < Len(first))
            THEN NoDecision
            ELSE
            LET picks ==
                    IF s.leader_to_beat # None
                    THEN LET leader == s.leader_to_beat[1]
                             current_total == SumSeq(Cur(s).picks)
                             remaining_after == s.remaining_dice - Len(first)
                             extra_ones ==
                                 Ascending({i \in OffsetsOf(faces) :
                                     i # lowest /\ faces[i + 1] = 1})
                             added == (1 * Len(extra_ones))
                                      + face_score(faces[lowest + 1])
                             ev_line == current_total + added
                                        + (REROLL_EV * remaining_after)
                         IN  IF ev_line <= leader THEN first \o extra_ones
                             ELSE first
                    ELSE first
            IN  IF Len(faces) > 1 /\ RngU8(RngNext(rng)) % 5 = 0
                THEN Decision(Reverse(picks))
                ELSE Decision(picks)

\* pro_policy never draws from the generator.  With no face rolled it
\* returns offset 0.  (remaining_dice - ones.len() underflows only with
\* more 1s rolled than dice remaining, which no reachable state has; it is
\* taken as the panic of a build with overflow checks.)
pro_policy(s, rng) ==
    LET faces == s.last_faces
        threes == Threes(faces)
    IN  IF threes # <<>> THEN Decision(threes)
        ELSE
        LET leader == IF s.leader_to_beat # None THEN s.leader_to_beat[1]
                      ELSE U32_MAX
            current_total == SumSeq(Cur(s).picks)
            ones == Ascending({i \in OffsetsOf(faces) : faces[i + 1] = 1})
        IN  IF ~HasCur(s) \/ s.remaining_dice < Len(ones) THEN NoDecision
            ELSE
            LET remaining_if_bank_ones == s.remaining_dice - Len(ones)
                ev_line_all_ones ==
                    current_total + (1 * Len(ones))
                    + (REROLL_EV * remaining_if_bank_ones)
            IN  IF ev_line_all_ones <= leader /\ ones # <<>>
                THEN Decision(ones)
                ELSE Decision(<<ScanLowest(faces, 1, 0)>>)

bot_pick(s, level, rng) ==
    IF level = "Amateur" THEN amateur_policy(s, rng) ELSE pro_policy(s, rng)

\* The fallback choosing the policy by the player's own bot level.
policy_of_player_level(s, rng) ==
    IF Cur(s).bot_level = Some("Pro") THEN pro_policy(s, rng)
    ELSE amateur_policy(s, rng)

amateur_policy_public(s, rng) == amateur_policy(s, rng)

----------------------------------------------------------------------------
\* lib.rs, continued

TimeoutRng(s) == seed_from_u64(Xor(s.seed, s.events_seq * 104729))

\* A timeout that counts its own event on top of the pick's.
timeout_autoplay_own_seq(s) ==
    LET s1 == [s EXCEPT !.leader_to_beat = compute_leader_to_beat(s)]
        decision == amateur_policy_public(s1, TimeoutRng(s))
    IN  IF ~decision.ok THEN Panicked(s1)
        ELSE LET r == pick(s1, decision.pick_indices)
                 t == [r.state EXCEPT !.events_seq = @ + 1]
             IN  IF ~r.ok THEN Panicked(r.state)
                 ELSE Returned(t,
                          Some([seq |-> t.events_seq, ty |-> "TimeoutAutoplay",
                                payload |-> [chosen |-> r.ev[1].payload,
                                             policy |-> "amateur_v1"],
                                state_hash |-> r.ev[1].state_hash]))

\* compute_leader_to_beat reads players[turn_idx] (line 94) before
\* leader_to_beat is written.
timeout_autoplay(s) ==
    LET rng == TimeoutRng(s)
        s1 == [s EXCEPT !.leader_to_beat = compute_leader_to_beat(s)]
        decision == amateur_policy_public(s1, rng)
    IN  IF ~HasCur(s) THEN Panicked(s)
        ELSE IF ~decision.ok THEN Panicked(s1)
        ELSE LET r == pick(s1, decision.pick_indices)
             IN  IF ~r.ok THEN Panicked(r.state)
                 ELSE Returned(r.state,
                          Some([seq |-> r.ev[1].seq, ty |-> "TimeoutAutoplay",
                                payload |-> [chosen |-> r.ev[1].payload,
                                             policy |-> "amateur_v1"],
                                state_hash |-> r.ev[1].state_hash]))

----------------------------------------------------------------------------
\* The session: init_game, then the host's calls.

Seeds == 0..MaxSeed

\* The player list given to init_game.
PlayerList(n) == [i \in 1..n |-> Roster(i)]

\* <<0, 1, ..., n - 1>>: every die of a roll of n.
AllOffsets(n) == [k \in 1..n |-> k - 1]

\* The offsets of the host's explicit lists.
PickOffsets == (0..MaxIndex) \cup {Len(last_faces)}

\* The pick lists the host tries: every die of the roll and, during the
\* first FineEvents events, no offset at all or one or two of PickOffsets
\* in any order (repeats and offsets past the roll included).
PickInputs ==
    {AllOffsets(Len(last_faces))}
    \cup (IF events_seq < FineEvents
          THEN {<<>>} \cup [1..1 -> PickOffsets] \cup [1..2 -> PickOffsets]
          ELSE {})

\* A call did what r says.
Commit(op, indices, r) ==
    /\ seed' = r.state.seed
    /\ players' = r.state.players
    /\ turn_idx' = r.state.turn_idx
    /\ remaining_dice' = r.state.remaining_dice
    /\ last_faces' = r.state.last_faces
    /\ must_pick_at_least_one' = r.state.must_pick_at_least_one
    /\ pot_cents' = r.state.pot_cents
    /\ phase' = r.state.phase
    /\ events_seq' = r.state.events_seq
    /\ per_turn_deadline_ms' = r.state.per_turn_deadline_ms
    /\ leader_to_beat' = r.state.leader_to_beat
    /\ call' = [op |-> op, indices |-> indices, ok |-> r.ok]
    /\ ev' = r.ev
    /\ emitted' = emitted + Len(r.ev)

\* The session's State is s.
InState(s) ==
    /\ seed = s.seed
    /\ players = s.players
    /\ turn_idx = s.turn_idx
    /\ remaining_dice = s.remaining_dice
    /\ last_faces = s.last_faces
    /\ must_pick_at_least_one = s.must_pick_at_least_one
    /\ pot_cents = s.pot_cents
    /\ phase = s.phase
    /\ events_seq = s.events_seq
    /\ per_turn_deadline_ms = s.per_turn_deadline_ms
    /\ leader_to_beat = s.leader_to_beat

\* The session right after init_game returned s.
Started(s) ==
    /\ InState(s)
    /\ call = [op |-> "init_game", indices |-> <<>>, ok |-> TRUE]
    /\ ev = None
    /\ emitted = 0
    /\ twin = None
    /\ turn_log = None

Init ==
    \E sd \in Seeds, n \in 1..MaxPlayers : Started(init_game(sd, PlayerList(n)))

Roll ==
    /\ events_seq < MaxEvents
    /\ Commit("roll", <<>>, roll(State))
    /\ UNCHANGED <<twin, turn_log>>

Pick ==
    /\ events_seq < MaxEvents
    /\ \E indices \in PickInputs : Commit("pick", indices, pick(State, indices))
    /\ UNCHANGED <<twin, turn_log>>

EndTurnIfDone ==
    /\ events_seq < MaxEvents
    /\ Commit("end_turn_if_done", <<>>, end_turn_if_done(State))
    /\ UNCHANGED <<twin, turn_log>>

TimeoutAutoplay ==
    /\ events_seq < MaxEvents
    /\ Commit("timeout_autoplay", <<>>, timeout_autoplay(State))
    /\ UNCHANGED <<twin, turn_log>>

Next == Roll \/ Pick \/ EndTurnIfDone \/ TimeoutAutoplay

Spec == Init /\ [][Next]_vars

\* init_game takes any Vec<Player>, the empty one included.
InitAnyList ==
    \E sd \in Seeds, n \in 0..MaxPlayers : Started(init_game(sd, PlayerList(n)))

SpecAnyList == InitAnyList /\ [][Next]_vars

----------------------------------------------------------------------------
\* The bot policies on their own: bot_pick is public, and a host's bot
\* scheduler calls it with a generator of its choosing while a roll awaits
\* its pick.  The policies read last_faces, remaining_dice, leader_to_beat
\* and the current player's picks.

\* len banked values (0, 1, 2, 4, 5 or 6 each) that sum to total.
RECURSIVE PicksOfTotal(_, _)
PicksOfTotal(total, len) ==
    IF len = 0 THEN <<>>
    ELSE LET v == IF total >= 6 THEN 6 ELSE IF total = 3 THEN 2 ELSE total
         IN  <<v>> \o PicksOfTotal(total - v, len - 1)

\* The second seat of a two-player session has banked picks and looks at
\* the roll faces; the first seat has finished its turn at opp_total.
\* leader is None, or what timeout_autoplay computed earlier in the turn.
AwaitingPick(faces, banked, opp_total, leader) ==
    LET s == init_game(0, PlayerList(2))
        k == Len(faces)
        seat0 == [s.players[1] EXCEPT
                    !.picks = PicksOfTotal(opp_total, DICE_PER_TURN),
                    !.total_score = opp_total]
        seat1 == [s.players[2] EXCEPT
                    !.picks = PicksOfTotal(banked, DICE_PER_TURN - k),
                    !.total_score = banked]
    IN  [s EXCEPT !.players = <<seat0, seat1>>, !.turn_idx = 1,
                  !.remaining_dice = k, !.last_faces = faces,
                  !.events_seq = 2 * DICE_PER_TURN,
                  !.leader_to_beat = leader]

InitBot ==
    \E k \in 1..MaxFaces, banked \in 0..MaxBanked, opp_total \in 0..MaxLeader :
      \E faces \in [1..k -> 1..6], leader \in {None, Some(opp_total)} :
        LET s == AwaitingPick(faces, banked, opp_total, leader)
        IN  /\ InState(s)
            /\ call = [op |-> "roll", indices |-> <<>>, ok |-> TRUE]
            /\ ev = None
            /\ emitted = s.events_seq
            /\ twin = None
            /\ turn_log = None

BotRngs == {seed_from_u64(sd) : sd \in Seeds}

\* A policy returned decision d; no field of State is written.
Decided(op, d) ==
    /\ call' = [op |-> op, indices |-> d.pick_indices, ok |-> d.ok]
    /\ UNCHANGED <<seed, players, turn_idx, remaining_dice, last_faces,
                   must_pick_at_least_one, pot_cents, phase, events_seq,
                   per_turn_deadline_ms, leader_to_beat, ev, emitted, twin,
                   turn_log>>

BotAmateur ==
    \E rng \in BotRngs : Decided("amateur_policy", bot_pick(State, "Amateur", rng))

BotPro ==
    \E rng \in BotRngs : Decided("pro_policy", bot_pick(State, "Pro", rng))

NextBot == BotAmateur \/ BotPro

SpecBot == InitBot /\ [][NextBot]_vars

----------------------------------------------------------------------------
\* The documented loop: init_game once, then roll, then the player's pick
\* or timeout_autoplay, then end_turn_if_done, again and again until the
\* phase is no longer Normal.  call tells the host where it is in the
\* loop; a call that panics ends it.  Every call returns, so a host in
\* the loop always makes its next call.

\* The pick the host collects: from a human one die at a time (the
\* longest turn there is), from a bot what bot_pick decides at the bot's
\* level (the host seeds its generator as timeout_autoplay does).
LoopPicks ==
    IF Cur(State).is_bot
    THEN {bot_pick(State, Cur(State).bot_level[1],
                   TimeoutRng(State)).pick_indices}
    ELSE {<<0>>}

InitLoop ==
    \E sd \in Seeds, n \in 1..MaxPlayers :
        /\ InState(init_game(sd, PlayerList(n)))
        /\ call = [op |-> "init_game", indices |-> <<>>, ok |-> TRUE]
        /\ ev = None
        /\ emitted = 0
        /\ twin = None
        /\ turn_log = [ended |-> 0, picks |-> 0]

LoopRoll ==
    /\ call.ok /\ call.op \in {"init_game", "end_turn_if_done"}
    /\ phase.tag = "Normal"
    /\ Commit("roll", <<>>, roll(State))
    /\ UNCHANGED <<twin, turn_log>>

LoopPick ==
    /\ call.ok /\ call.op = "roll"
    /\ \E indices \in LoopPicks : Commit("pick", indices, pick(State, indices))
    /\ turn_log' = [turn_log EXCEPT !.picks = @ + 1]
    /\ twin' = twin

\* The host's bot scheduler answers at once; it is a human who lets the
\* deadline pass.
LoopTimeout ==
    /\ call.ok /\ call.op = "roll"
    /\ ~Cur(State).is_bot
    /\ Commit("timeout_autoplay", <<>>, timeout_autoplay(State))
    /\ turn_log' = [turn_log EXCEPT !.picks = @ + 1]
    /\ twin' = twin

LoopEndTurn ==
    /\ call.ok /\ call.op \in {"pick", "timeout_autoplay"}
    /\ LET r == end_turn_if_done(State)
       IN  /\ Commit("end_turn_if_done", <<>>, r)
           /\ turn_log' = IF r.ev # None
                          THEN [ended |-> turn_log.ended + 1, picks |-> 0]
                          ELSE turn_log
    /\ twin' = twin

NextLoop == LoopRoll \/ LoopPick \/ LoopTimeout \/ LoopEndTurn

SpecLoop == InitLoop /\ [][NextLoop]_vars /\ WF_vars(NextLoop)

----------------------------------------------------------------------------
\* Two sessions of one seed, side by side: at each step the host makes one
\* call on each.  twin.same holds while the two were given the same player
\* list and, step for step, the same call with the same pick list.  (Which
\* of two sessions is called the twin does not matter: the twin is the one
\* with at least as many players.)

\* The calls made on a session in state s.
TwinCalls(s) ==
    {[op |-> op, indices |-> <<>>] :
        op \in {"roll", "end_turn_if_done", "timeout_autoplay"}}
    \cup {[op |-> "pick", indices |-> AllOffsets(Len(s.last_faces))]}

\* What call c leaves of a session in state s.
Apply(s, c) ==
    CASE c.op = "roll" -> roll(s)
      [] c.op = "pick" -> pick(s, c.indices)
      [] c.op = "end_turn_if_done" -> end_turn_if_done(s)
      [] OTHER -> timeout_autoplay(s)

TwinInit ==
    \E sd \in Seeds, n \in 1..MaxPlayers, m \in 1..MaxPlayers :
        LET s == init_game(sd, PlayerList(n))
        IN  /\ n <= m
            /\ seed = s.seed
            /\ players = s.players
            /\ turn_idx = s.turn_idx
            /\ remaining_dice = s.remaining_dice
            /\ last_faces = s.last_faces
            /\ must_pick_at_least_one = s.must_pick_at_least_one
            /\ pot_cents = s.pot_cents
            /\ phase = s.phase
            /\ events_seq = s.events_seq
            /\ per_turn_deadline_ms = s.per_turn_deadline_ms
            /\ leader_to_beat = s.leader_to_beat
            /\ call = [op |-> "init_game", indices |-> <<>>, ok |-> TRUE]
            /\ ev = None
            /\ emitted = 0
            /\ twin = [state |-> init_game(sd, PlayerList(m)),
                       call |-> [op |-> "init_game", indices |-> <<>>,
                                 ok |-> TRUE],
                       ev |-> None,
                       same |-> (n = m)]
            /\ turn_log = None

TwinStep ==
    /\ events_seq < MaxTwinEvents
    /\ twin.state.events_seq < MaxTwinEvents
    /\ \E c \in TwinCalls(State), d \in TwinCalls(twin.state) :
          LET r == Apply(twin.state, d)
          IN  /\ Commit(c.op, c.indices, Apply(State, c))
              /\ twin' = [state |-> r.state,
                          call |-> [op |-> d.op, indices |-> d.indices,
                                    ok |-> r.ok],
                          ev |-> r.ev,
                          same |-> twin.same /\ c = d]
    /\ turn_log' = turn_log

TwinNext == TwinStep

SpecTwin == TwinInit /\ [][TwinNext]_vars

----------------------------------------------------------------------------
\* Properties.

Range(v) == {v[k] : k \in 1..Len(v)}
Scores(v) == [k \in 1..Len(v) |-> face_score(v[k])]
Seats == 1..Len(players)
IsCall(op) == call'.op = op
Succeeded(op) == call'.op = op /\ call'.ok

\* C1: every player who has banked a pick has total_score equal to the
\* sum of face_score over the picks banked.
C1_TotalIsSumOfPicks ==
    \A i \in Seats :
        players[i].picks # <<>>
            => players[i].total_score = SumSeq(Scores(players[i].picks))

\* Reached: a player banked in two or more picks, a face 3 (scored 0) and
\* a scoring face among them.
C1_Witness ==
    /\ call.op = "pick" /\ call.ok
    /\ \E i \in Seats :
        /\ Len(players[i].picks) >= 3
        /\ 0 \in Range(players[i].picks)
        /\ players[i].total_score > 0
        /\ remaining_dice > 0

\* The calls C2 says are rejected, by the state they are made in.
C2_RejectedPick ==
    /\ IsCall("pick")
    /\ \/ last_faces = <<>>
       \/ call'.indices = <<>>
       \/ \E k \in 1..Len(call'.indices) :
              call'.indices[k] >= Len(last_faces)
C2_RejectedRoll ==
    /\ IsCall("roll")
    /\ (phase.tag # "Normal" \/ remaining_dice = 0)

\* C2: a pick with no active roll, with no offset or with an offset past
\* the roll, and a roll outside Normal or with no die left, fail and leave
\* every field of State as it was.
C2_RejectedCallLeavesState ==
    [][(C2_RejectedPick \/ C2_RejectedRoll)
        => (~call'.ok /\ ev' = None /\ State' = State)]_vars

\* Reached: a pick of one offset inside the roll and one past it was
\* rejected after the player had banked dice.
C2_Witness ==
    /\ call.op = "pick" /\ ~call.ok
    /\ last_faces # <<>>
    /\ \E k \in 1..Len(call.indices) : call.indices[k] < Len(last_faces)
    /\ \E k \in 1..Len(call.indices) : call.indices[k] >= Len(last_faces)
    /\ players[turn_idx + 1].picks # <<>>

\* The seats (offsets) at the lowest total.
LowestSeats ==
    {i \in OffsetsOf(players) :
        \A j \in OffsetsOf(players) :
            players[i + 1].total_score <= players[j + 1].total_score}
IdsOf(offsets) == [k \in 1..Len(offsets) |-> players[offsets[k] + 1].id]

\* C3: ending the last seat's turn sets Finished when one player holds the
\* lowest total and SuddenDeath with the ids of all who share it, by
\* ascending seat, when several do; ending another seat's turn leaves the
\* phase Normal.
C3_RoundEvaluation ==
    [][(IsCall("end_turn_if_done") /\ ev' # None)
        => IF turn_idx = Len(players) - 1
           THEN IF Cardinality(LowestSeats) = 1
                THEN phase' = Finished
                ELSE phase' = SuddenDeath(IdsOf(Ascending(LowestSeats)))
           ELSE phase' = Normal]_vars

\* Reached: a round of two players ended in a tie at a total above 0.
C3_Witness ==
    /\ call.op = "end_turn_if_done" /\ ev # None
    /\ phase.tag = "SuddenDeath" /\ Len(phase.ids) = 2
    /\ players[1].total_score > 0

\* C4: the phase changes only from Normal, and only to SuddenDeath or
\* Finished; a terminal phase is never left or exchanged.
C4_PhaseOnlyForward ==
    [][/\ phase.tag # "Normal" => phase' = phase
       /\ phase' # phase => phase'.tag \in {"SuddenDeath", "Finished"}]_vars

\* Reached: calls were made (and refused) after the phase became terminal.
C4_Witness ==
    /\ phase.tag = "SuddenDeath"
    /\ call.op = "roll" /\ ~call.ok

C6_FacesAfterRollAndPick ==
    [][/\ Succeeded("roll")
            => /\ remaining_dice' = remaining_dice
               /\ Len(last_faces') = remaining_dice
               /\ \A k \in 1..Len(last_faces') : last_faces'[k] \in 1..6
       /\ (Succeeded("pick") \/ Succeeded("timeout_autoplay"))
            => last_faces' = <<>>]_vars

\* Reached: a roll of fewer than seven dice, over the faces of a roll not
\* yet picked from.
C6_Witness ==
    /\ call.op = "roll" /\ call.ok
    /\ remaining_dice < DICE_PER_TURN
    /\ Len(last_faces) = remaining_dice
    /\ 1 \in Range(last_faces) /\ 6 \in Range(last_faces)

\* C7: a successful pick banks the distinct offsets given, ascending: the
\* event lists them once each with the face_score of their faces, those
\* scores are appended to the current player's picks, remaining_dice is
\* the roll's size less the number of distinct offsets, and no other
\* player changes.
C7_PickBanksDistinctOffsets ==
    [][Succeeded("pick")
        => LET idxs == Ascending(Range(call'.indices))
               vals == [k \in 1..Len(idxs) |->
                           face_score(last_faces[idxs[k] + 1])]
           IN  /\ ev' # None /\ ev'[1].ty = "Pick"
               /\ ev'[1].payload = [picked |-> idxs, values |-> vals]
               /\ Cardinality(Range(ev'[1].payload.picked))
                      = Len(ev'[1].payload.picked)
               /\ players'[turn_idx + 1].picks
                      = players[turn_idx + 1].picks \o vals
               /\ remaining_dice' = Len(last_faces) - Len(idxs)
               /\ \A i \in Seats : i # turn_idx + 1
                      => players'[i] = players[i]]_vars

\* Reached: a pick given the same offset twice banked it once.
C7_Witness ==
    /\ call.op = "pick" /\ call.ok
    /\ Len(call.indices) = 2 /\ call.indices[1] = call.indices[2]
    /\ Len(ev[1].payload.picked) = 1
    /\ Len(players) = 2

\* C8: with dice remaining end_turn_if_done returns nothing and changes no
\* field of State; with none it returns one EndTurn event with the
\* player's total, moves turn_idx on by one modulo the number of players
\* and sets remaining_dice to 7.
C8_EndTurnOnlyWhenDone ==
    [][IsCall("end_turn_if_done")
        => IF remaining_dice > 0
           THEN call'.ok /\ ev' = None /\ State' = State
           ELSE /\ call'.ok /\ ev' # None
                /\ ev'[1].ty = "EndTurn"
                /\ ev'[1].payload.total = players[turn_idx + 1].total_score
                /\ turn_idx' = (turn_idx + 1) % Len(players)
                /\ remaining_dice' = 7]_vars

\* Reached: the turn of the second of two players ended, and turn_idx
\* wrapped to 0.
C8_Witness ==
    /\ call.op = "end_turn_if_done" /\ ev # None
    /\ Len(players) = 2 /\ turn_idx = 0
    /\ ev[1].payload.playerIdx = 1

\* C9: with a roll active, timeout_autoplay succeeds, banks exactly the
\* dice the Amateur policy chooses (under the leader to beat it has just
\* computed) whatever the player's bot level, takes at least one die off
\* remaining_dice, and returns one TimeoutAutoplay event with the pick's
\* seq and payload.
C9_TimeoutPlaysAmateur ==
    [][(IsCall("timeout_autoplay") /\ last_faces # <<>>)
        => LET s1 == [State EXCEPT
                        !.leader_to_beat = compute_leader_to_beat(State)]
               d == amateur_policy(s1, TimeoutRng(State))
               idxs == Ascending(Range(d.pick_indices))
               vals == [k \in 1..Len(idxs) |->
                           face_score(last_faces[idxs[k] + 1])]
           IN  /\ call'.ok /\ d.ok
               /\ players'[turn_idx + 1].picks
                      = players[turn_idx + 1].picks \o vals
               /\ remaining_dice' = remaining_dice - Len(idxs)
               /\ remaining_dice' <= remaining_dice - 1
               /\ ev' # None /\ ev'[1].ty = "TimeoutAutoplay"
               /\ ev'[1].seq = events_seq + 1
               /\ ev'[1].payload.chosen = [picked |-> idxs, values |-> vals]
      ]_vars

\* Reached: the timeout played for a Pro bot, and banked one die of a roll
\* that showed several 1s and no 3.
C9_Witness ==
    /\ call.op = "timeout_autoplay" /\ call.ok
    /\ players[turn_idx + 1].bot_level = Some("Pro")
    /\ ev[1].payload.chosen.values = <<1>>
    /\ remaining_dice <= 5

\* C10: two sessions of one seed given the same player list and the same
\* calls are in the same state and have returned the same events; and the
\* faces of a roll depend on the seed, events_seq and remaining_dice alone:
\* two sessions of one seed that roll at the same events_seq with the same
\* remaining_dice roll the same faces, whatever their players and the
\* calls before.
C10_Deterministic ==
    twin # None
        => /\ twin.same
                => (twin.state = State /\ twin.call = call /\ twin.ev = ev)
           /\ (/\ call.op = "roll" /\ call.ok
               /\ twin.call.op = "roll" /\ twin.call.ok
               /\ twin.state.seed = seed
               /\ twin.state.events_seq = events_seq
               /\ twin.state.remaining_dice = remaining_dice)
                => twin.state.last_faces = last_faces

\* Reached: two sessions with different players and different picks
\* behind them rolled the same faces at the same events_seq.
C10_Witness ==
    /\ twin # None /\ ~twin.same
    /\ call.op = "roll" /\ call.ok
    /\ twin.call.op = "roll" /\ twin.call.ok
    /\ twin.state.events_seq = events_seq /\ events_seq = 4
    /\ twin.state.remaining_dice = remaining_dice
    /\ twin.state.turn_idx # turn_idx
    /\ twin.state.players[1].picks # players[1].picks
    /\ twin.state.last_faces = last_faces

\* C11: within a turn a roll whose faces still await a pick (last_faces
\* non-empty, must_pick_at_least_one true) is followed by a pick before the
\* next roll: roll is not accepted in such a state, so no faces are
\* discarded and rolled again without a die banked.
C11_RollNeedsPickFirst ==
    [][(IsCall("roll") /\ last_faces # <<>> /\ must_pick_at_least_one)
        => (~call'.ok /\ last_faces' = last_faces)]_vars

\* C12: while the phase is Normal remaining_dice is between 0 and 7, and
\* it is 7 right after init_game and right after every end_turn_if_done
\* that ends a turn.
C12_RemainingDiceInRange ==
    /\ remaining_dice = 7
    /\ [][/\ phase'.tag = "Normal" => remaining_dice' \in 0..7
          /\ (IsCall("end_turn_if_done") /\ ev' # None)
                => remaining_dice' = 7]_vars

\* Reached: a turn ended with no die left and the next began with 7, the
\* phase still Normal.
C12_Witness ==
    /\ call.op = "end_turn_if_done" /\ ev # None
    /\ phase.tag = "Normal" /\ turn_idx = 1
    /\ remaining_dice = 7
    /\ Len(players[1].picks) = 7

\* C13 as stated: after init_game of any player list, and ever after,
\* turn_idx is a valid index into players.
C13_TurnIdxValidForAnyList == turn_idx \in 0..(Len(players) - 1)

\* C13: after init_game of a player list that is not empty, and ever
\* after, turn_idx is a valid index into players.
C13_TurnIdxValid ==
    players # <<>> => turn_idx \in 0..(Len(players) - 1)

\* Reached: the turn of the last of two seats ended and turn_idx wrapped
\* to seat 0.
C13_Witness ==
    /\ Len(players) = 2 /\ turn_idx = 0
    /\ call.op = "end_turn_if_done" /\ ev # None
    /\ ev[1].payload.playerIdx = 1
    /\ phase.tag # "Normal"

\* What the bot properties speak of: the first offset of the lowest
\* face_score, the other offsets showing 1, the total banked so far.
LowestOffset ==
    CHOOSE i \in OffsetsOf(last_faces) :
        \A j \in OffsetsOf(last_faces) :
            /\ face_score(last_faces[i + 1]) <= face_score(last_faces[j + 1])
            /\ face_score(last_faces[j + 1]) = face_score(last_faces[i + 1])
                  => i <= j
OnesBut(i) == {j \in OffsetsOf(last_faces) : j # i /\ last_faces[j + 1] = 1}
Banked == SumSeq(Scores(players[turn_idx + 1].picks))

\* C14: on a roll with no 3 and a leader to beat, the Amateur policy takes
\* the first offset of the lowest face_score, and with it every other
\* offset showing 1 exactly when banked total + face_score(lowest)
\* + (number of those others) + 3 * remaining_after <= leader_to_beat,
\* remaining_after being remaining_dice - 1 - (number of those others).
C14_AmateurBanksOnes ==
    [][(IsCall("amateur_policy") /\ last_faces # <<>>
        /\ 3 \notin Range(last_faces) /\ leader_to_beat # None)
        => LET others == OnesBut(LowestOffset)
               remaining_after == remaining_dice - 1 - Cardinality(others)
               ev_line == Banked + face_score(last_faces[LowestOffset + 1])
                          + Cardinality(others) + 3 * remaining_after
           IN  /\ call'.ok
               /\ Range(call'.indices) =
                     IF ev_line <= leader_to_beat[1]
                     THEN {LowestOffset} \cup others
                     ELSE {LowestOffset}]_vars

\* C17: on a roll showing at least one 3, the Amateur and the Pro policy
\* both return the offsets showing 3, each once and no other, whatever the
\* leader to beat, the banked total and the generator.
C17_ThreesAlwaysTaken ==
    [][((IsCall("amateur_policy") \/ IsCall("pro_policy"))
        /\ 3 \in Range(last_faces))
        => LET threes == {i \in OffsetsOf(last_faces) : last_faces[i + 1] = 3}
           IN  /\ call'.ok
               /\ Range(call'.indices) = threes
               /\ Len(call'.indices) = Cardinality(threes)]_vars

\* Reached: the Pro policy took the two 3s of a roll that also showed a 1,
\* with a leader to beat.
C17_Witness ==
    /\ call.op = "pro_policy" /\ call.ok
    /\ 3 \in Range(last_faces) /\ 1 \in Range(last_faces)
    /\ leader_to_beat # None /\ Banked > 0
    /\ Len(call.indices) = 2

\* C18: on a roll with no 3, the Pro policy returns every offset showing 1
\* exactly when there is one and banked total + (number of 1s)
\* + 3 * (remaining_dice - number of 1s) <= leader (leader_to_beat, or the
\* largest u32 when there is none); otherwise the first offset of the
\* lowest face_score alone.  The generator has no part in it.
C18_ProPolicy ==
    [][(IsCall("pro_policy") /\ last_faces # <<>>
        /\ 3 \notin Range(last_faces))
        => LET ones == {i \in OffsetsOf(last_faces) : last_faces[i + 1] = 1}
               leader == IF leader_to_beat = None THEN U32_MAX
                         ELSE leader_to_beat[1]
               ev_line == Banked + Cardinality(ones)
                          + 3 * (remaining_dice - Cardinality(ones))
           IN  /\ call'.ok
               /\ IF ones # {} /\ ev_line <= leader
                  THEN /\ Range(call'.indices) = ones
                       /\ Len(call'.indices) = Cardinality(ones)
                  ELSE call'.indices = <<LowestOffset>>]_vars

\* Reached: with two 1s rolled after a 2 and the projection above the
\* leader, the Pro policy fell back to the first of the 1s alone.
C18_Witness ==
    /\ call.op = "pro_policy" /\ call.ok
    /\ last_faces = <<2, 1, 1>>
    /\ leader_to_beat # None
    /\ call.indices = <<1>>

\* The seats other than the current one whose players have banked a pick.
OthersWhoPicked ==
    {i \in Seats : i # turn_idx + 1 /\ players[i].picks # <<>>}

\* C15: timeout_autoplay sets leader_to_beat to the lowest total_score
\* among the players other than the current one who have banked a pick,
\* and to None when there is none; the current player's total is not
\* counted.
C15_LeaderIsLowestOther ==
    [][IsCall("timeout_autoplay")
        => leader_to_beat' =
              IF OthersWhoPicked = {} THEN None
              ELSE Some(CHOOSE t \in {players[i].total_score :
                                         i \in OthersWhoPicked} :
                          \A i \in OthersWhoPicked :
                              t <= players[i].total_score)]_vars

\* Reached: the timeout played for a player whose own total, picks
\* banked, is below the leader it computed.
C15_Witness ==
    /\ call.op = "timeout_autoplay" /\ call.ok
    /\ leader_to_beat # None
    /\ Len(players[turn_idx + 1].picks) >= 2
    /\ players[turn_idx + 1].total_score < leader_to_beat[1]

\* C16 as stated: a turn ended by end_turn_if_done leaves no roll and no
\* pick pending: last_faces is empty and must_pick_at_least_one is false,
\* as pick leaves it.
C16_NewTurnFlagCleared ==
    [][(IsCall("end_turn_if_done") /\ ev' # None)
        => (last_faces' = <<>> /\ must_pick_at_least_one' = FALSE)]_vars

\* C16: a turn ended by end_turn_if_done leaves no roll pending:
\* last_faces is empty, and must_pick_at_least_one is set (true), the value
\* init_game gives it at the start of the first turn.
C16_NewTurnFlagSet ==
    /\ must_pick_at_least_one = TRUE
    /\ [][(IsCall("end_turn_if_done") /\ ev' # None)
            => (last_faces' = <<>> /\ must_pick_at_least_one' = TRUE)]_vars

\* Reached: a turn ended right after the pick that had set the flag false,
\* and the next turn began with it true and no faces.
C16_Witness ==
    /\ call.op = "end_turn_if_done" /\ ev # None
    /\ must_pick_at_least_one /\ last_faces = <<>>
    /\ phase.tag = "Normal" /\ turn_idx = 1

\* C20: dice are conserved.  While the phase is Normal the current
\* player's banked picks and remaining_dice add up to 7, every seat before
\* turn_idx has banked 7 picks and every seat after it none; once the
\* phase is Finished or SuddenDeath every player has banked 7.
C20_DiceConserved ==
    /\ phase.tag = "Normal"
          => /\ Len(players[turn_idx + 1].picks) + remaining_dice = 7
             /\ \A i \in Seats :
                   /\ i < turn_idx + 1 => Len(players[i].picks) = 7
                   /\ i > turn_idx + 1 => players[i].picks = <<>>
    /\ phase.tag # "Normal"
          => \A i \in Seats : Len(players[i].picks) = 7

\* Reached: the second of two seats, some of its dice banked in more than
\* one pick, looks at a new roll of the rest.
C20_Witness ==
    /\ phase.tag = "Normal" /\ Len(players) = 2 /\ turn_idx = 1
    /\ Len(players[2].picks) \in 2..6
    /\ remaining_dice < 6
    /\ Len(last_faces) = remaining_dice
    /\ call.op = "roll" /\ call.ok

\* C19: a host that follows the loop from init_game with n >= 1 players
\* always comes to the end of the game: no call fails, no turn takes more
\* than 7 picks, the k-th EndTurn event is seat k - 1's and hands the turn
\* to seat k, and the phase is Finished or SuddenDeath exactly once n
\* EndTurn events were returned, which in the end they are.
C19_LoopTerminates ==
    /\ phase.tag = "Normal" /\ turn_log.ended = 0
    /\ [][/\ call'.ok
          /\ turn_log'.picks <= 7
          /\ (IsCall("end_turn_if_done") /\ ev' # None)
                => ev'[1].payload.playerIdx = turn_log.ended
          /\ phase'.tag = "Normal" => turn_idx' = turn_log'.ended
          /\ phase'.tag # "Normal" <=> turn_log'.ended = Len(players)]_vars
    /\ <>(phase.tag # "Normal")

\* Reached: a game of two players is over after 26 events or more, the
\* human's turn having taken seven rolls and seven picks of one die.
C19_Witness ==
    /\ phase.tag # "Normal" /\ Len(players) = 2
    /\ turn_log # None /\ turn_log.ended = 2
    /\ call.op = "end_turn_if_done" /\ ev # None
    /\ emitted >= 26

====
